---- MODULE Spec2Model ----
(***************************************************************************)
(* Model of json_to_excel_AlpinAditya.py: the flattener (flatten), the     *)
(* sheet planner (make_sheets_from_obj), sheet-name sanitisation and the   *)
(* tab naming of the two Excel writers.                                    *)
(*                                                                         *)
(* Representation.                                                         *)
(*   - a Python str is a sequence of one-character strings;                *)
(*   - a parsed JSON value is a record [t, v]: t is the Python type        *)
(*     ("null", "bool", "num", "str", "list", "dict") and v the payload;   *)
(*   - a Python dict (insertion ordered, unique keys) is a sequence of     *)
(*     <<key, value>> pairs with pairwise distinct keys.                   *)
(***************************************************************************)
EXTENDS Integers, Sequences, FiniteSets, TLC

VARIABLES pc, obj, parent_key, items, sheets, branch, tabs

vars == <<pc, obj, parent_key, items, sheets, branch, tabs>>

(***************************************************************************)
(* Bounds of the model                                                     *)
(***************************************************************************)
\* nodes (scalars, arrays, objects) of a document given to flatten
MaxNodesFlatten == 5
\* nodes of a document given to make_sheets_from_obj
MaxNodes == 5
\* sheets of a collection given to an Excel writer
MaxSheets == 3

(***************************************************************************)
(* JSON values                                                             *)
(***************************************************************************)
JNull == [t |-> "null", v |-> <<>>]
JBool(b) == [t |-> "bool", v |-> b]
JNum(n) == [t |-> "num", v |-> n]
JStr(s) == [t |-> "str", v |-> s]
JList(s) == [t |-> "list", v |-> s]
JDict(p) == [t |-> "dict", v |-> p]

IsDict(x) == x.t = "dict"
IsList(x) == x.t = "list"
IsScalar(x) == x.t \in {"null", "bool", "num", "str"}

RECURSIVE Vals(_, _, _), ValSeqs(_, _, _), PairSeqs(_, _, _, _)
\* every JSON value of exactly n nodes whose scalars are taken from S and
\* whose object keys are taken from K
Vals(n, S, K) ==
  IF n = 1 THEN S \cup {JList(<<>>), JDict(<<>>)}
  ELSE {JList(s) : s \in ValSeqs(n - 1, S, K)}
       \cup {JDict(p) : p \in PairSeqs(n - 1, S, K, K)}
\* the sequences of values of m nodes in total
ValSeqs(m, S, K) ==
  IF m = 0 THEN {<<>>}
  ELSE UNION {{<<x>> \o rest : x \in Vals(i, S, K), rest \in ValSeqs(m - i, S, K)} :
              i \in 1..m}
\* the key/value sequences of m nodes in total, keys pairwise distinct and
\* taken from avail
PairSeqs(m, S, K, avail) ==
  IF m = 0 THEN {<<>>}
  ELSE UNION {UNION {{<< <<k, x>> >> \o rest :
                        x \in Vals(i, S, K),
                        rest \in PairSeqs(m - i, S, K, avail \ {k})} :
                     k \in avail} :
              i \in 1..m}

(***************************************************************************)
(* Python dict operations on pair sequences                                *)
(***************************************************************************)
KeySet(d) == {d[i][1] : i \in 1..Len(d)}
HasKey(d, k) == k \in KeySet(d)
Get(d, k) == d[CHOOSE i \in 1..Len(d) : d[i][1] = k][2]

\* d[k] = x : an existing key keeps its position, a new key is appended
DictSet(d, k, x) ==
  IF HasKey(d, k)
  THEN [i \in 1..Len(d) |-> IF d[i][1] = k THEN <<k, x>> ELSE d[i]]
  ELSE Append(d, <<k, x>>)

RECURSIVE DictUpdate(_, _)
\* d.update(e)
DictUpdate(d, e) ==
  IF e = <<>> THEN d
  ELSE DictUpdate(DictSet(d, e[1][1], e[1][2]), Tail(e))

(***************************************************************************)
(* json.dumps(x, ensure_ascii=False)                                       *)
(***************************************************************************)
Digit(n) == <<"0", "1", "2", "3", "4", "5", "6", "7", "8", "9">>[n + 1]

RECURSIVE NatStr(_)
NatStr(n) == IF n < 10 THEN <<Digit(n)>> ELSE NatStr(n \div 10) \o <<Digit(n % 10)>>

IntStr(n) == IF n < 0 THEN <<"-">> \o NatStr(-n) ELSE NatStr(n)

RECURSIVE Escape(_)
\* the body of a JSON string literal: quotes and backslashes are escaped
Escape(s) ==
  IF s = <<>> THEN <<>>
  ELSE (IF Head(s) \in {"\"", "\\"} THEN <<"\\", Head(s)>> ELSE <<Head(s)>>)
       \o Escape(Tail(s))

Quote(s) == <<"\"">> \o Escape(s) \o <<"\"">>

RECURSIVE Dumps(_), DumpsList(_), DumpsPairs(_)
Dumps(x) ==
  CASE x.t = "null" -> <<"n", "u", "l", "l">>
    [] x.t = "bool" -> IF x.v THEN <<"t", "r", "u", "e">>
                       ELSE <<"f", "a", "l", "s", "e">>
    [] x.t = "num" -> IntStr(x.v)
    [] x.t = "str" -> Quote(x.v)
    [] x.t = "list" -> <<"[">> \o DumpsList(x.v) \o <<"]">>
    [] x.t = "dict" -> <<"{">> \o DumpsPairs(x.v) \o <<"}">>
DumpsList(s) ==
  IF s = <<>> THEN <<>>
  ELSE Dumps(s[1]) \o (IF Len(s) > 1 THEN <<",", " ">> ELSE <<>>) \o DumpsList(Tail(s))
DumpsPairs(p) ==
  IF p = <<>> THEN <<>>
  ELSE Quote(p[1][1]) \o <<":", " ">> \o Dumps(p[1][2])
       \o (IF Len(p) > 1 THEN <<",", " ">> ELSE <<>>) \o DumpsPairs(Tail(p))

(***************************************************************************)
(* flatten(d, parent_key='', sep='.')                                      *)
(***************************************************************************)
sep == <<".">>

\* faulty variants of the key composition
NewKeyAlwaysJoined(parent, k) == parent \o sep \o k
NewKeyDropParent(parent, k) == k

\* new_key = f"{parent_key}{sep}{k}" if parent_key else k
NewKey(parent, k) == IF parent # <<>> THEN parent \o sep \o k ELSE k

RECURSIVE flatten(_, _), FlattenItems(_, _, _)
flatten(d, parent) ==
  IF IsDict(d) THEN FlattenItems(d.v, parent, <<>>)
  ELSE << <<parent, d>> >>
\* the loop over d.items(), acc being the dict built so far
FlattenItems(p, parent, acc) ==
  IF p = <<>> THEN acc
  ELSE LET k == p[1][1]
           x == p[1][2]
           new_key == NewKey(parent, k)
       IN FlattenItems(Tail(p), parent,
            IF IsDict(x) THEN DictUpdate(acc, flatten(x, new_key))
            ELSE IF IsList(x) THEN DictSet(acc, new_key, JStr(Dumps(x)))
            ELSE DictSet(acc, new_key, x))

(***************************************************************************)
(* Specification of the flattener: one call on a generated input           *)
(***************************************************************************)
FlattenKeys == {<<>>, <<"a">>, <<"a", ".", "a">>}
FlattenScalars == {JNum(1)}
FlattenPrefixes == {<<>>, <<"p">>}

InitFlatten ==
  /\ pc = "idle"
  /\ obj = JNull
  /\ parent_key = <<>>
  /\ items = <<>>
  /\ sheets = <<>>
  /\ branch = "none"
  /\ tabs = <<>>

\* items = flatten(d, p)
CallFlatten(d, p) ==
  /\ obj' = d
  /\ parent_key' = p
  /\ items' = flatten(d, p)
  /\ pc' = "done"
  /\ UNCHANGED <<sheets, branch, tabs>>

\* one call, on any value of at most MaxNodesFlatten nodes: a scalar or an
\* empty container, an object, or an array
NextFlatten ==
  /\ pc = "idle"
  /\ \E p \in FlattenPrefixes :
       \/ \E d \in Vals(1, FlattenScalars, FlattenKeys) : CallFlatten(d, p)
       \/ \E m \in 1..(MaxNodesFlatten - 1) : \E i \in 1..m : \E k \in FlattenKeys :
            \E x \in Vals(i, FlattenScalars, FlattenKeys),
               rest \in PairSeqs(m - i, FlattenScalars, FlattenKeys, FlattenKeys \ {k}) :
              CallFlatten(JDict(<< <<k, x>> >> \o rest), p)
       \/ \E m \in 1..(MaxNodesFlatten - 1) : \E i \in 1..m :
            \E x \in Vals(i, FlattenScalars, FlattenKeys),
               rest \in ValSeqs(m - i, FlattenScalars, FlattenKeys) :
              CallFlatten(JList(<<x>> \o rest), p)

SpecFlatten == InitFlatten /\ [][NextFlatten]_vars

(***************************************************************************)
(* Properties of flatten                                                   *)
(***************************************************************************)
RECURSIVE RefEntries(_, _)
\* the <<flat key, cell>> entries of an object's pairs p in depth-first order:
\* a nested object contributes its own entries, an array one serialized
\* cell, a scalar itself
RefEntries(p, prefix) ==
  IF p = <<>> THEN <<>>
  ELSE LET key == IF Len(prefix) = 0 THEN p[1][1] ELSE prefix \o <<".">> \o p[1][1]
           x == p[1][2]
       IN (CASE x.t = "dict" -> RefEntries(x.v, key)
             [] x.t = "list" -> << <<key, JStr(Dumps(x))>> >>
             [] OTHER -> << <<key, x>> >>)
          \o RefEntries(Tail(p), prefix)

\* the row of a sequence of entries: one entry per distinct key, at the
\* place the key was first produced, holding the value produced last
RefRow(E) ==
  LET first == {i \in 1..Len(E) : \A j \in 1..(i - 1) : E[j][1] # E[i][1]}
      last(k) == CHOOSE i \in 1..Len(E) :
                   E[i][1] = k /\ \A j \in (i + 1)..Len(E) : E[j][1] # k
      pos(n) == CHOOSE i \in first : Cardinality({j \in first : j < i}) = n - 1
  IN [n \in 1..Cardinality(first) |-> <<E[pos(n)][1], E[last(E[pos(n)][1])][2]>>]

\* C8: flatten(value, prefix) equals the reference flattening: an object's
\* pairs are visited depth-first, a key is prefix + "." + key under a
\* non-empty prefix and the key alone otherwise, a nested object is merged and
\* never stored, a nested array is stored as one serialized string, a scalar is
\* stored directly, keys keep their first-produced order; a value that is not
\* an object gives the single-entry row {prefix: value}.
C8_FlattenIsReference ==
  pc = "done" =>
    /\ IsDict(obj) =>
         /\ items = RefRow(RefEntries(obj.v, parent_key))
         /\ \A i \in 1..Len(items) : ~IsDict(items[i][2])
    /\ ~IsDict(obj) => items = << <<parent_key, obj>> >>

\* a call under a non-empty prefix on an object that nests an object holding
\* an array
C8_Witness ==
  /\ pc = "done"
  /\ IsDict(obj)
  /\ parent_key # <<>>
  /\ \E i \in 1..Len(obj.v) :
       /\ IsDict(obj.v[i][2])
       /\ \E j \in 1..Len(obj.v[i][2].v) : IsList(obj.v[i][2].v[j][2])
  /\ Len(items) >= 1

RECURSIVE LeafCount(_), AllKeys(_), ObjectKeys(_)
\* the number of paths of an object's pairs p that end in a non-object value
LeafCount(p) ==
  IF p = <<>> THEN 0
  ELSE (IF IsDict(p[1][2]) THEN LeafCount(p[1][2].v) ELSE 1) + LeafCount(Tail(p))
\* the keys of an object's pairs p, at every nesting depth of objects
AllKeys(p) ==
  IF p = <<>> THEN {}
  ELSE {p[1][1]} \cup (IF IsDict(p[1][2]) THEN AllKeys(p[1][2].v) ELSE {})
       \cup AllKeys(Tail(p))
\* those of the keys whose value is an object
ObjectKeys(p) ==
  IF p = <<>> THEN {}
  ELSE (IF IsDict(p[1][2]) THEN {p[1][1]} \cup ObjectKeys(p[1][2].v) ELSE {})
       \cup ObjectKeys(Tail(p))

HasDot(k) == \E i \in 1..Len(k) : k[i] = "."
NoDottedKey(d) == \A k \in AllKeys(d.v) : ~HasDot(k)

\* C10 as stated: for an object none of whose keys contains ".", the row
\* has exactly one entry per non-object leaf.
C10_NoDotNoLoss ==
  (pc = "done" /\ IsDict(obj) /\ NoDottedKey(obj)) =>
    Len(items) = LeafCount(obj.v)

\* C10 amended: the same, for an object none of whose keys contains "." and
\* none of whose empty-string keys has an object as its value.
C10_NoDotNoEmptyObjectKeyNoLoss ==
  (pc = "done" /\ IsDict(obj) /\ NoDottedKey(obj) /\ <<>> \notin ObjectKeys(obj.v)) =>
    /\ Len(items) = LeafCount(obj.v)
    /\ \A i, j \in 1..Len(items) : items[i][1] = items[j][1] => i = j

\* an object with a nested object, an empty-string key on a leaf and two
\* leaves, flattened from the empty prefix
C10_Witness ==
  /\ pc = "done"
  /\ IsDict(obj)
  /\ parent_key = <<>>
  /\ NoDottedKey(obj)
  /\ <<>> \notin ObjectKeys(obj.v)
  /\ <<>> \in AllKeys(obj.v)
  /\ ObjectKeys(obj.v) # {}
  /\ LeafCount(obj.v) = 2
  /\ Len(items) = 2

(***************************************************************************)
(* make_sheets_from_obj(obj)                                               *)
(***************************************************************************)
ValueKey == <<"v", "a", "l", "u", "e">>
Sheet1 == <<"S", "h", "e", "e", "t", "1">>
Summary == <<"S", "u", "m", "m", "a", "r", "y">>

RECURSIVE TopListRowsSerialized(_)
\* faulty variant: every non-object element is serialized
TopListRowsSerialized(s) ==
  IF s = <<>> THEN <<>>
  ELSE << (IF IsDict(s[1]) THEN flatten(s[1], <<>>)
           ELSE << <<ValueKey, JStr(Dumps(s[1]))>> >>) >>
       \o TopListRowsSerialized(Tail(s))

RECURSIVE TopListRows(_)
\* the rows of a top-level array: flatten(item) for a dict, {'value': item}
\* otherwise
TopListRows(s) ==
  IF s = <<>> THEN <<>>
  ELSE << (IF IsDict(s[1]) THEN flatten(s[1], <<>>) ELSE << <<ValueKey, s[1]>> >>) >>
       \o TopListRows(Tail(s))

\* all(isinstance(i, dict) for i in v)
AllDicts(s) == \A i \in 1..Len(s) : IsDict(s[i])

RECURSIVE ObjectRows(_)
\* [flatten(i) for i in v]
ObjectRows(s) ==
  IF s = <<>> THEN <<>> ELSE <<flatten(s[1], <<>>)>> \o ObjectRows(Tail(s))

RECURSIVE WrappedRows(_)
\* [{'value': json.dumps(i, ensure_ascii=False)} for i in v]
WrappedRows(s) ==
  IF s = <<>> THEN <<>>
  ELSE << << <<ValueKey, JStr(Dumps(s[1]))>> >> >> \o WrappedRows(Tail(s))

RECURSIVE DictLoop(_, _, _)
\* the loop over obj.items(): sh is the sheets dict and rem the remaining
\* dict built so far (str(k) is k: the keys of a parsed JSON object are str)
DictLoop(p, sh, rem) ==
  IF p = <<>> THEN [sheets |-> sh, remaining |-> rem]
  ELSE LET k == p[1][1]
           x == p[1][2]
       IN IF IsList(x)
          THEN DictLoop(Tail(p),
                        DictSet(sh, k, IF AllDicts(x.v) THEN ObjectRows(x.v)
                                       ELSE WrappedRows(x.v)),
                        rem)
          ELSE DictLoop(Tail(p), sh, DictSet(rem, k, x))

\* faulty variants of the end of the dict branch
DictFinishNoFallback(sh, rem, o) ==
  [sheets |-> IF rem # <<>> THEN DictSet(sh, Summary, <<flatten(JDict(rem), <<>>)>>) ELSE sh,
   branch |-> "dict"]
DictFinishFallbackOnRemaining(sh, rem, o) ==
  IF rem # <<>>
  THEN [sheets |-> DictSet(sh, Summary, <<flatten(JDict(rem), <<>>)>>), branch |-> "dict"]
  ELSE [sheets |-> DictSet(sh, Sheet1, <<flatten(o, <<>>)>>), branch |-> "fallback"]
DictFinishSummaryOfObj(sh, rem, o) ==
  LET sh1 == IF rem # <<>> THEN DictSet(sh, Summary, <<flatten(o, <<>>)>>) ELSE sh
  IN IF sh1 = <<>>
     THEN [sheets |-> DictSet(sh1, Sheet1, <<flatten(o, <<>>)>>), branch |-> "fallback"]
     ELSE [sheets |-> sh1, branch |-> "dict"]

\* if remaining: sheets['Summary'] = [flatten(remaining)]
\* if not sheets: sheets['Sheet1'] = [flatten(obj)]
\* branch records whether the second assignment ran
DictFinish(sh, rem, o) ==
  LET sh1 == IF rem # <<>> THEN DictSet(sh, Summary, <<flatten(JDict(rem), <<>>)>>) ELSE sh
  IN IF sh1 = <<>>
     THEN [sheets |-> DictSet(sh1, Sheet1, <<flatten(o, <<>>)>>), branch |-> "fallback"]
     ELSE [sheets |-> sh1, branch |-> "dict"]

\* the sheets returned, with the return statement that returned them
make_sheets_from_obj(o) ==
  IF IsList(o)
  THEN [sheets |-> DictSet(<<>>, Sheet1, TopListRows(o.v)), branch |-> "list"]
  ELSE IF IsDict(o)
  THEN LET l == DictLoop(o.v, <<>>, <<>>) IN DictFinish(l.sheets, l.remaining, o)
  ELSE [sheets |-> DictSet(<<>>, Sheet1, << << <<ValueKey, JStr(Dumps(o))>> >> >>),
        branch |-> "scalar"]

(***************************************************************************)
(* Specification of the planner: one call on a generated document          *)
(***************************************************************************)
DocKeys == {<<"a">>, Summary, Sheet1}
DocScalars == {JNum(1), JStr(<<"x">>)}

Init ==
  /\ pc = "idle"
  /\ obj = JNull
  /\ parent_key = <<>>
  /\ items = <<>>
  /\ sheets = <<>>
  /\ branch = "none"
  /\ tabs = <<>>

\* sheets = make_sheets_from_obj(d)
CallMakeSheets(d) ==
  /\ obj' = d
  /\ sheets' = make_sheets_from_obj(d).sheets
  /\ branch' = make_sheets_from_obj(d).branch
  /\ pc' = "done"
  /\ UNCHANGED <<parent_key, items, tabs>>

\* one call, on any document of at most MaxNodes nodes: a scalar or an empty
\* container, an object, or an array
Next ==
  /\ pc = "idle"
  /\ \/ \E d \in Vals(1, DocScalars \cup {JBool(TRUE), JNull}, DocKeys) : CallMakeSheets(d)
     \/ \E m \in 1..(MaxNodes - 1) : \E i \in 1..m : \E k \in DocKeys :
          \E x \in Vals(i, DocScalars, DocKeys),
             rest \in PairSeqs(m - i, DocScalars, DocKeys, DocKeys \ {k}) :
            CallMakeSheets(JDict(<< <<k, x>> >> \o rest))
     \/ \E m \in 1..(MaxNodes - 1) : \E i \in 1..m :
          \E x \in Vals(i, DocScalars, DocKeys),
             rest \in ValSeqs(m - i, DocScalars, DocKeys) :
            CallMakeSheets(JList(<<x>> \o rest))

Spec == Init /\ [][Next]_vars

(***************************************************************************)
(* Properties of make_sheets_from_obj                                      *)
(***************************************************************************)
ListKeys(o) == {o.v[i][1] : i \in {j \in 1..Len(o.v) : IsList(o.v[j][2])}}
NonListPairs(o) == SelectSeq(o.v, LAMBDA e : ~IsList(e[2]))
EmptyRow == <<>>

\* C1: for every JSON value the call returns a sheet collection holding at
\* least one sheet.
C1_AtLeastOneSheet ==
  pc = "done" => Len(sheets) >= 1

\* a top-level scalar, which is neither an array nor an object
C1_Witness ==
  pc = "done" /\ IsScalar(obj) /\ branch = "scalar" /\ Len(sheets) = 1

\* C2 as stated: for a top-level object, every key whose value is an array
\* of objects has a sheet of its name whose rows are the flattened elements in
\* array order, whatever the other keys are.
C2_ObjectArraySheet ==
  (pc = "done" /\ IsDict(obj)) =>
    \A i \in 1..Len(obj.v) :
      LET k == obj.v[i][1]
          x == obj.v[i][2]
      IN (IsList(x) /\ AllDicts(x.v)) =>
           /\ HasKey(sheets, k)
           /\ Len(Get(sheets, k)) = Len(x.v)
           /\ \A j \in 1..Len(x.v) : Get(sheets, k)[j] = flatten(x.v[j], <<>>)

\* C3 as stated: for a top-level object key whose value is an array not made
\* of objects only, the sheet of that name has one single-column row per
\* element, under "value": a scalar element verbatim, an object or array
\* element as its serialized string.
C3_MixedArraySheet ==
  (pc = "done" /\ IsDict(obj)) =>
    \A i \in 1..Len(obj.v) :
      LET k == obj.v[i][1]
          x == obj.v[i][2]
      IN (IsList(x) /\ ~AllDicts(x.v)) =>
           /\ HasKey(sheets, k)
           /\ Len(Get(sheets, k)) = Len(x.v)
           /\ \A j \in 1..Len(x.v) :
                Get(sheets, k)[j] =
                  << <<ValueKey, IF IsScalar(x.v[j]) THEN x.v[j]
                                 ELSE JStr(Dumps(x.v[j]))>> >>

\* C4: for a top-level object with a key whose value is not an array, the
\* sheet Summary exists, holds exactly one row, the flattening of the object
\* restricted to its non-array keys in their order, and every sheet is
\* Summary or the sheet of an array-valued key.
C4_SummarySheet ==
  (pc = "done" /\ IsDict(obj) /\ NonListPairs(obj) # <<>>) =>
    /\ HasKey(sheets, Summary)
    /\ Get(sheets, Summary) = <<flatten(JDict(NonListPairs(obj)), <<>>)>>
    /\ KeySet(sheets) = ListKeys(obj) \cup {Summary}
    /\ Len(sheets) = Cardinality(ListKeys(obj) \cup {Summary})

\* an object with an array-valued key and two keys that are not
C4_Witness ==
  /\ pc = "done"
  /\ IsDict(obj)
  /\ Len(NonListPairs(obj)) = 2
  /\ ListKeys(obj) # {}
  /\ Len(sheets) = 2
  /\ Len(Get(sheets, Summary)[1]) = 2

\* C5: for a top-level object the Sheet1 fallback runs exactly when the
\* object is empty, giving the single sheet Sheet1 with one empty row; a
\* non-empty object without array-valued key gives the single sheet Summary
\* with one row, the flattening of the object.
C5_FallbackIffEmpty ==
  (pc = "done" /\ IsDict(obj)) =>
    /\ (branch = "fallback") <=> (obj.v = <<>>)
    /\ obj.v = <<>> => sheets = << <<Sheet1, <<EmptyRow>>>> >>
    /\ (obj.v # <<>> /\ ListKeys(obj) = {}) =>
         sheets = << <<Summary, <<flatten(obj, <<>>)>>>> >>

\* the empty object, having taken the fallback
C5_Witness ==
  pc = "done" /\ obj = JDict(<<>>) /\ branch = "fallback"
  /\ sheets = << <<Sheet1, <<EmptyRow>>>> >>

\* C6: a top-level array gives exactly one sheet, Sheet1, with one row per
\* element in order: the flattening of an object element, and the row
\* {value: element} with the element unchanged for any other element.
C6_TopLevelArray ==
  (pc = "done" /\ IsList(obj)) =>
    /\ Len(sheets) = 1
    /\ sheets[1][1] = Sheet1
    /\ Len(sheets[1][2]) = Len(obj.v)
    /\ \A j \in 1..Len(obj.v) :
         sheets[1][2][j] = IF IsDict(obj.v[j]) THEN flatten(obj.v[j], <<>>)
                           ELSE << <<ValueKey, obj.v[j]>> >>

\* an array holding an object and an element that is not an object
C6_Witness ==
  /\ pc = "done"
  /\ IsList(obj)
  /\ \E i, j \in 1..Len(obj.v) : IsDict(obj.v[i]) /\ obj.v[i].v # <<>> /\ ~IsDict(obj.v[j])
  /\ Len(sheets[1][2]) = Len(obj.v)

\* C7 as stated: every cell of every row of every returned sheet is a
\* scalar or a string, never a raw array or a raw object.
C7_CellsAreScalar ==
  pc = "done" =>
    \A s \in 1..Len(sheets) : \A r \in 1..Len(sheets[s][2]) :
      \A c \in 1..Len(sheets[s][2][r]) : IsScalar(sheets[s][2][r][c][2])

(***************************************************************************)
(* sanitize_sheet_name(name, default='Sheet')                              *)
(***************************************************************************)
\* the length sanitize_sheet_name truncates to
NameMax == 31
\* the length the writers truncate a base name to before a suffix
SuffixBase == 28

invalid == {"\\", "/", "*", "?", ":", "[", "]"}
Whitespace == {" ", "\t", "\n", "\r"}
DefaultName == <<"S", "h", "e", "e", "t">>

RECURSIVE LStrip(_), RStrip(_)
LStrip(s) == IF s # <<>> /\ Head(s) \in Whitespace THEN LStrip(Tail(s)) ELSE s
RStrip(s) ==
  IF s # <<>> /\ s[Len(s)] \in Whitespace THEN RStrip(SubSeq(s, 1, Len(s) - 1)) ELSE s
\* s.strip()
Strip(s) == RStrip(LStrip(s))

\* s[:n]
Prefix(s, n) == SubSeq(s, 1, IF Len(s) < n THEN Len(s) ELSE n)

sanitize_sheet_name(name) ==
  LET replaced == [i \in 1..Len(name) |-> IF name[i] \in invalid THEN "_" ELSE name[i]]
      stripped == Strip(replaced)
      s == IF stripped = <<>> THEN DefaultName ELSE stripped
  IN Prefix(s, NameMax)

(***************************************************************************)
(* Tab naming of write_excel_with_pandas and write_excel_with_openpyxl     *)
(***************************************************************************)
\* (base[:28] + f"_{i}") if len(base) > 28 else f"{base}_{i}"
Suffixed(base, i) ==
  IF Len(base) > SuffixBase THEN Prefix(base, SuffixBase) \o <<"_">> \o NatStr(i)
  ELSE base \o <<"_">> \o NatStr(i)

RECURSIVE Unused(_, _, _, _)
\* the loop "while name in <names in use>: name = ...; i += 1"
Unused(name, base, i, used) ==
  IF name \in used THEN Unused(Suffixed(base, i), base, i + 1, used) ELSE name

SeqSet(s) == {s[i] : i \in 1..Len(s)}

RECURSIVE PandasLoop(_, _)
\* the loop of write_excel_with_pandas over sheets.items(); out is the
\* sequence of sheet_name arguments given to to_excel so far, which are the
\* keys of writer.sheets. A sheet without rows is written under its
\* sanitized name and skips the renaming loop.
PandasLoop(c, out) ==
  IF c = <<>> THEN out
  ELSE LET name == sanitize_sheet_name(c[1][1])
           rows == c[1][2]
       IN IF rows = <<>> THEN PandasLoop(Tail(c), Append(out, name))
          ELSE PandasLoop(Tail(c), Append(out, Unused(name, name, 1, SeqSet(out))))

write_excel_with_pandas(c) == PandasLoop(c, <<>>)

RECURSIVE OpenpyxlLoop(_, _, _, _)
\* the loop of write_excel_with_openpyxl; names is wb.sheetnames, out the
\* titles given to the sheets so far. The first sheet takes over the default
\* worksheet of the new workbook, the others are created.
OpenpyxlLoop(c, names, first, out) ==
  IF c = <<>> THEN out
  ELSE LET name == Unused(sanitize_sheet_name(c[1][1]), sanitize_sheet_name(c[1][1]),
                          1, SeqSet(names))
       IN IF first THEN OpenpyxlLoop(Tail(c), <<name>>, FALSE, Append(out, name))
          ELSE OpenpyxlLoop(Tail(c), Append(names, name), FALSE, Append(out, name))

\* Workbook() holds one worksheet, titled "Sheet"
write_excel_with_openpyxl(c) == OpenpyxlLoop(c, <<DefaultName>>, TRUE, <<>>)

(***************************************************************************)
(* Specification of the writers: one call on a generated sheet collection  *)
(***************************************************************************)
Repeat(ch, n) == [i \in 1..n |-> ch]

RawNames ==
  { <<"a", "/", "b">>, <<"a", "?", "b">>, <<"a", "_", "b", "_", "1">>,
    <<>>, <<" ", "S", "h", "e", "e", "t">>,
    Repeat("x", NameMax), Repeat("x", NameMax) \o <<"y">>, Repeat("x", NameMax) \o <<"z">> }

SomeRows == << << <<ValueKey, JNum(1)>> >> >>

\* the sheet collections of n sheets: raw names pairwise distinct, each sheet
\* with one row or with none
Collections(n) ==
  {c \in [1..n -> RawNames \X {<<>>, SomeRows}] :
     \A i, j \in 1..n : c[i][1] = c[j][1] => i = j}

InitWrite ==
  /\ pc = "idle"
  /\ obj = JNull
  /\ parent_key = <<>>
  /\ items = <<>>
  /\ sheets = <<>>
  /\ branch = "none"
  /\ tabs = <<>>

WritePandas(c) ==
  /\ sheets' = c
  /\ tabs' = write_excel_with_pandas(c)
  /\ branch' = "pandas"
  /\ pc' = "done"
  /\ UNCHANGED <<obj, parent_key, items>>

WriteOpenpyxl(c) ==
  /\ sheets' = c
  /\ tabs' = write_excel_with_openpyxl(c)
  /\ branch' = "openpyxl"
  /\ pc' = "done"
  /\ UNCHANGED <<obj, parent_key, items>>

\* main() calls the pandas writer if pandas could be imported and the
\* openpyxl writer otherwise
NextWrite ==
  /\ pc = "idle"
  /\ \E n \in 1..MaxSheets : \E c \in Collections(n) :
       \/ WritePandas(c)
       \/ WriteOpenpyxl(c)

SpecWrite == InitWrite /\ [][NextWrite]_vars

\* C9 as stated: the tab names either writer assigns to the sheets of a
\* collection, in order, are pairwise distinct and at most 31 characters
\* long, also for sheets without rows.
C9_TabsDistinctAndShort ==
  pc = "done" =>
    /\ Len(tabs) = Len(sheets)
    /\ \A i, j \in 1..Len(tabs) : tabs[i] = tabs[j] => i = j
    /\ \A i \in 1..Len(tabs) : Len(tabs[i]) <= NameMax

====
